---- MODULE Spec2Model ----
EXTENDS Integers, Sequences, FiniteSets, TLC

VARIABLES
    files,            \* JOBS_DIR: job id -> the snapshot file <id>.json
    hist,             \* job id -> the snapshots completely written so far, in order
    pc,               \* job id -> position of the job's background task
    total_duration,   \* process_video_task: local total_duration
    probe_out,        \* process_video_task: outcome of the dimension probe (W, H)
    overlays,         \* process_video_task: argument overlays
    cmd,              \* process_video_task: input_args, filter_complex, last_stream_label
    pending,          \* save_job_status: local data of the call in progress
    ret,              \* where process_video_task continues after the call
    nlines,           \* lines of process.stderr consumed so far
    proc,             \* the ffmpeg child process of the job
    output,           \* OUTPUT_DIR: job id -> whether <id>.mp4 exists
    assets,           \* OVERLAY_DIR: the stored overlay files
    lst,              \* list_jobs: the glob still to read and jobs_list
    resp              \* the response produced by the last step, if it was a request

vars == <<files, hist, pc, total_duration, probe_out, overlays, cmd, pending, ret,
          nlines, proc, output, assets, lst, resp>>

(***************************************************************************)
(* Python floats (IEEE-754 binary64, round-to-nearest-even).               *)
(* A non-negative float is held as a fixed-point number of NL limbs of LB  *)
(* bits, most significant limb first, the first INTL limbs being the       *)
(* integer part.  Every operation computes the exact result and then       *)
(* rounds it to 53 significant bits, which is what the hardware does.      *)
(***************************************************************************)
LB == 16
BASE == 65536
INTL == 2
NL == 8
NB == NL * LB
MANT == 53

\* the float of a small non-negative integer (exact)
FromInt(n) == [j \in 1..NL |-> IF j = INTL - 1 THEN n \div BASE
                               ELSE IF j = INTL THEN n % BASE ELSE 0]

\* int(x) of a non-negative float: truncation
ToInt(x) == x[INTL - 1] * BASE + x[INTL]

\* exact sum of two fixed-point numbers, from the lowest limb up
RECURSIVE AddFrom(_, _, _, _, _)
AddFrom(a, b, j, carry, acc) ==
    IF j = 0 THEN acc
    ELSE AddFrom(a, b, j - 1, (a[j] + b[j] + carry) \div BASE,
                 <<(a[j] + b[j] + carry) % BASE>> \o acc)
AddLimbs(a, b) == AddFrom(a, b, NL, 0, <<>>)

\* exact product with a small integer
RECURSIVE MulFrom(_, _, _, _, _)
MulFrom(a, k, j, carry, acc) ==
    IF j = 0 THEN acc
    ELSE MulFrom(a, k, j - 1, (a[j] * k + carry) \div BASE,
                 <<(a[j] * k + carry) % BASE>> \o acc)
MulLimbs(a, k) == MulFrom(a, k, NL, 0, <<>>)

\* exact quotient by a positive integer below 2^15 (long division from the
\* highest limb down), cut after NL limbs; st tells whether anything
\* non-zero was cut off
RECURSIVE DivFrom(_, _, _, _, _)
DivFrom(a, d, j, r, acc) ==
    IF j > NL THEN [x |-> acc, st |-> r # 0]
    ELSE DivFrom(a, d, j + 1, (r * BASE + a[j]) % d,
                 Append(acc, (r * BASE + a[j]) \div d))
DivLimbs(a, d) == DivFrom(a, d, 1, 0, <<>>)

\* bit i (1 = most significant) of a fixed-point number
Bit(x, i) == (x[((i - 1) \div LB) + 1] \div (2 ^ (LB - 1 - ((i - 1) % LB)))) % 2

RECURSIVE PackFrom(_, _, _, _)
PackFrom(b, i, n, v) == IF n = 0 THEN v ELSE PackFrom(b, i + 1, n - 1, 2 * v + b[i])
Pack(b) == [j \in 1..NL |-> PackFrom(b, (j - 1) * LB + 1, LB, 0)]

\* round an exact result to 53 significant bits, ties to even
Round53(r) ==
    LET b == [i \in 1..NB |-> Bit(r.x, i)]
        ones == {i \in 1..NB : b[i] = 1}
    IN IF ones = {} THEN r.x
       ELSE LET p == CHOOSE i \in ones : \A k \in ones : i <= k
                last == p + MANT - 1
            IN IF last >= NB THEN r.x
               ELSE LET guard == b[last + 1]
                        rest == r.st \/ \E k \in (last + 2)..NB : b[k] = 1
                        up == guard = 1 /\ (rest \/ b[last] = 1)
                        zs == {i \in 1..last : b[i] = 0}
                        z == CHOOSE i \in zs : \A k \in zs : k <= i
                    IN Pack([i \in 1..NB |->
                               IF i > last THEN 0
                               ELSE IF ~up THEN b[i]
                               ELSE IF i < z THEN b[i]
                               ELSE IF i = z THEN 1 ELSE 0])

Exact(x) == [x |-> x, st |-> FALSE]

FAdd(a, b) == Round53(Exact(AddLimbs(a, b)))
FDiv(a, d) == Round53(DivLimbs(a, d))
FMul(a, k) == Round53(Exact(MulLimbs(a, k)))

\* float("SS.ff"): the float nearest to the decimal
FloatOfSeconds(s, f) == FDiv(FromInt(100 * s + f), 100)

(***************************************************************************)
(* Job store: save_job_status / load_job_status                            *)
(***************************************************************************)
Jobs == {"j1", "j2"}

None == "None"

\* the dict built by save_job_status (updated_at, a wall-clock stamp that
\* nothing reads back, is left out)
Snapshot(job_id, status, progress, error) ==
    [job_id |-> job_id, status |-> status, progress |-> progress, error |-> error]

\* json.dump: the text is written as a sequence of pieces
Keys == <<"{", "job_id", "status", "progress", "error", "}">>
json_dump(data) ==
    [i \in 1..Len(Keys) |->
        [k |-> Keys[i],
         v |-> CASE Keys[i] = "job_id" -> data.job_id
                 [] Keys[i] = "status" -> data.status
                 [] Keys[i] = "progress" -> data.progress
                 [] Keys[i] = "error" -> data.error
                 [] OTHER -> ""]]

\* a parser that accepts an object cut off after its progress field
json_loads_truncated(content) ==
    IF Len(content) >= 4 /\ \A i \in 1..4 : content[i].k = Keys[i]
    THEN [raised |-> FALSE,
          val |-> <<Snapshot(content[2].v, content[3].v, content[4].v,
                             IF Len(content) >= 5 THEN content[5].v ELSE None)>>]
    ELSE [raised |-> TRUE, val |-> <<>>]

\* json.loads / json.load: a text that is not one complete object raises
\* JSONDecodeError
json_loads(content) ==
    IF Len(content) = Len(Keys) /\ \A i \in 1..Len(Keys) : content[i].k = Keys[i]
    THEN [raised |-> FALSE,
          val |-> <<Snapshot(content[2].v, content[3].v, content[4].v, content[5].v)>>]
    ELSE [raised |-> TRUE, val |-> <<>>]

NoFile == [exists |-> FALSE, data |-> <<>>]

\* load_job_status: <<>> stands for None, <<d>> for the dict d
load_job_status(file) ==
    IF ~file.exists THEN <<>>
    ELSE IF file.data = <<>> THEN <<>>
    ELSE IF json_loads(file.data).raised THEN <<>>
    ELSE json_loads(file.data).val

(***************************************************************************)
(* Progress extraction: time_pattern, time_str_to_sec, the percentage      *)
(***************************************************************************)
\* a line of the engine's diagnostic stream: with or without "time=HH:MM:SS.ff"
NoMarker == [marker |-> FALSE, h |-> 0, m |-> 0, s |-> 0, f |-> 0]
Marker(h, m, s, f) == [marker |-> TRUE, h |-> h, m |-> m, s |-> s, f |-> f]

\* time_str_to_sec on a string the pattern matched: int(h)*3600 + int(m)*60 + float(s)
\* (the pattern only matches three numeric fields, so the except branch is dead)
time_str_to_sec(t) == FAdd(FromInt(t.h * 3600 + t.m * 60), FloatOfSeconds(t.s, t.f))

\* int((current_sec / total_duration) * 100)
percent(current_sec, duration) == ToInt(FMul(FDiv(current_sec, duration), 100))

Min(a, b) == IF a <= b THEN a ELSE b

\* the same without the clamp to 99
LineProgressUnclamped(line, duration) == percent(time_str_to_sec(line), duration)

\* the progress passed to save_job_status for a line that carries a marker
LineProgress(line, duration) == Min(percent(time_str_to_sec(line), duration), 99)

(***************************************************************************)
(* Filter graph: the loop over the overlays in process_video_task          *)
(***************************************************************************)
\* stream labels: [0:v], [k:v] are <<"in", k>>, [v3] is <<"v", 3>>, [sc2] is <<"sc", 2>>
BaseLabel == <<"in", 0>>

InputFlag == <<"-i">>
VideoPath(job_id) == <<"video", job_id>>
OverlayPath(content) == <<"overlay", content>>

\* values of the optional and numeric fields of an overlay item: the field
\* is not in the item, is null, or is the decimal n/100
Absent == <<"absent">>
Null == <<"null">>
Num(n) == <<"num", n>>

\* OverlayMetadata(**item): width and height default to 0.2
OverlayMetadata(item) ==
    [type |-> item.type, content |-> item.content,
     start_time |-> item.start_time, end_time |-> item.end_time,
     x |-> item.x, y |-> item.y,
     width |-> IF item.width = Absent THEN Num(20) ELSE item.width,
     height |-> IF item.height = Absent THEN Num(20) ELSE item.height]

\* the float of the decimal n/100
Frac(n) == FDiv(FromInt(n), 100)

\* int(fraction * size) for the fraction n/100
Px(n, size) == ToInt(FMul(Frac(n), size))

\* (v or d): None and 0 are replaced by the default d
OrDefault(v, d) == IF v = Null \/ v = Num(0) THEN d ELSE v[2]

Max(a, b) == IF a >= b THEN a ELSE b

\* max(16, int((ov.height or 0.05) * H))
FontSize(ov, H) == Max(16, Px(OrDefault(ov.height, 5), H))

\* if n % 2 != 0: n -= 1
EvenDown(n) == IF n % 2 # 0 THEN n - 1 ELSE n

\* target_w, target_h
TargetW(ov, W) == EvenDown(Px(OrDefault(ov.width, 20), W))
TargetH(ov, H) == EvenDown(Px(OrDefault(ov.height, 20), H))

\* str.replace(old, new) for a one-character old
RECURSIVE Replace(_, _, _)
Replace(str, old, new) ==
    IF str = <<>> THEN <<>>
    ELSE (IF Head(str) = old THEN new ELSE <<Head(str)>>) \o Replace(Tail(str), old, new)

Quote == "'"
Backslash == "\\"
Colon == ":"

\* ov.content.replace("'", "'\\''").replace(":", "\\:")
SafeText(content) ==
    Replace(Replace(content, Quote, <<Quote, Backslash, Quote, Quote>>),
            Colon, <<Backslash, Colon>>)

\* one stage of the graph; the fields a filter does not take are left empty
Stage(filter, ins, out) ==
    [filter |-> filter, ins |-> ins, out |-> out, text |-> <<>>, fontsize |-> 0,
     w |-> 0, h |-> 0, x |-> 0, y |-> 0, enable |-> <<>>]

\* [v{i+1}] and [sc{i}]
NextLabel(i) == <<"v", i + 1>>
ScaledLabel(i) == <<"sc", i>>

\* the index without the subtraction
InputIndexNext(input_args) == Len(input_args) \div 2

\* len(input_args) // 2 - 1
InputIndex(input_args) == (Len(input_args) \div 2) - 1

\* enable='between(t,{ov.start_time},{ov.end_time})'
Enable(ov) == <<ov.start_time, ov.end_time>>

\* lines 157-166: the draw-text stage
TextStep(acc, i, ov, W, H) ==
    [input_args |-> acc.input_args,
     filter_complex |-> Append(acc.filter_complex,
         [Stage("drawtext", <<acc.last_stream_label>>, NextLabel(i)) EXCEPT
             !.text = SafeText(ov.content), !.fontsize = FontSize(ov, H),
             !.x = Px(ov.x, W), !.y = Px(ov.y, H), !.enable = Enable(ov)]),
     last_stream_label |-> NextLabel(i)]

\* the asset step with the composite stage reading the base stream
AssetStepFromBase(acc, i, ov, W, H) ==
    LET args == acc.input_args \o <<InputFlag, OverlayPath(ov.content)>>
    IN [input_args |-> args,
        filter_complex |-> acc.filter_complex \o
            << [Stage("scale", << <<"in", InputIndex(args)>> >>, ScaledLabel(i)) EXCEPT
                   !.w = TargetW(ov, W), !.h = TargetH(ov, H)],
               [Stage("overlay", <<BaseLabel, ScaledLabel(i)>>, NextLabel(i))
                   EXCEPT !.x = Px(ov.x, W), !.y = Px(ov.y, H), !.enable = Enable(ov)] >>,
        last_stream_label |-> NextLabel(i)]

\* lines 174-190: the added input, the scale stage and the overlay stage
AssetStep(acc, i, ov, W, H) ==
    LET args == acc.input_args \o <<InputFlag, OverlayPath(ov.content)>>
    IN [input_args |-> args,
        filter_complex |-> acc.filter_complex \o
            << [Stage("scale", << <<"in", InputIndex(args)>> >>, ScaledLabel(i)) EXCEPT
                   !.w = TargetW(ov, W), !.h = TargetH(ov, H)],
               [Stage("overlay", <<acc.last_stream_label, ScaledLabel(i)>>, NextLabel(i))
                   EXCEPT !.x = Px(ov.x, W), !.y = Px(ov.y, H), !.enable = Enable(ov)] >>,
        last_stream_label |-> NextLabel(i)]

\* the body of the loop without the test that the overlay file exists
OverlayStepUnchecked(acc, i, ov, W, H, stored) ==
    IF ov.type = "text" THEN TextStep(acc, i, ov, W, H)
    ELSE IF ov.type \in {"image", "video"} THEN AssetStep(acc, i, ov, W, H)
    ELSE acc

\* the body of the loop for the overlay ov at enumerate index i (0-based);
\* acc holds input_args, filter_complex and last_stream_label
OverlayStep(acc, i, ov, W, H, stored) ==
    IF ov.type = "text" THEN TextStep(acc, i, ov, W, H)
    ELSE IF ov.type \in {"image", "video"}
    THEN IF ov.content \notin stored THEN acc ELSE AssetStep(acc, i, ov, W, H)
    ELSE acc

RECURSIVE CompileFrom(_, _, _, _, _, _)
CompileFrom(acc, i, ovs, W, H, stored) ==
    IF i >= Len(ovs) THEN acc
    ELSE CompileFrom(OverlayStep(acc, i, ovs[i + 1], W, H, stored), i + 1, ovs, W, H,
                     stored)

\* the graph "null"
NullGraph == <<Stage("null", <<>>, <<>>)>>

\* the compiler without the replacement of an empty graph
CompileRaw(job_id, ovs, W, H, stored) ==
    LET acc == CompileFrom([input_args |-> <<InputFlag, VideoPath(job_id)>>,
                            filter_complex |-> <<>>,
                            last_stream_label |-> BaseLabel], 0, ovs, W, H, stored)
    IN [input_args |-> acc.input_args,
        filter_complex |-> acc.filter_complex,
        map |-> acc.last_stream_label]

\* lines 147-194: the command's inputs, graph and mapped label
Compile(job_id, ovs, W, H, stored) ==
    LET acc == CompileFrom([input_args |-> <<InputFlag, VideoPath(job_id)>>,
                            filter_complex |-> <<>>,
                            last_stream_label |-> BaseLabel], 0, ovs, W, H, stored)
    IN [input_args |-> acc.input_args,
        filter_complex |-> IF acc.filter_complex = <<>> THEN NullGraph
                           ELSE acc.filter_complex,
        map |-> acc.last_stream_label]

NoCmd == [input_args |-> <<>>, filter_complex |-> <<>>, map |-> <<>>]

(***************************************************************************)
(* State                                                                   *)
(***************************************************************************)
\* the outcomes of the dimension probe: ffprobe fails, prints nothing, prints
\* something that is not WxH, prints WxH
NotProbed == [kind |-> "none", W |-> 0, H |-> 0]
ProbeError == [kind |-> "error", W |-> 0, H |-> 0]
ProbeEmpty == [kind |-> "empty", W |-> 0, H |-> 0]
ProbeNonNumeric == [kind |-> "nonnumeric", W |-> 0, H |-> 0]
ProbeOk(W, H) == [kind |-> "ok", W |-> W, H |-> H]

NoResp == [op |-> "none", job |-> "", code |-> 0, detail |-> "", body |-> <<>>]
Response(op, job, code, detail, body) ==
    [op |-> op, job |-> job, code |-> code, detail |-> detail, body |-> body]

NoList == [active |-> FALSE, todo |-> {}, acc |-> <<>>]

Init ==
    /\ files = [j \in Jobs |-> NoFile]
    /\ hist = [j \in Jobs |-> <<>>]
    /\ pc = [j \in Jobs |-> "unused"]
    /\ total_duration = [j \in Jobs |-> 0]
    /\ probe_out = [j \in Jobs |-> NotProbed]
    /\ overlays = [j \in Jobs |-> <<>>]
    /\ cmd = [j \in Jobs |-> NoCmd]
    /\ pending = [j \in Jobs |-> <<>>]
    /\ ret = [j \in Jobs |-> "none"]
    /\ nlines = [j \in Jobs |-> 0]
    /\ proc = [j \in Jobs |-> "none"]
    /\ output = [j \in Jobs |-> FALSE]
    /\ assets = {}
    /\ lst = NoList
    /\ resp = NoResp

locals == <<total_duration, probe_out, overlays, cmd, nlines, proc>>

\* the requests are coroutines without a suspension point: on the event loop
\* one runs to its end before the next starts; only the background tasks,
\* which run in worker threads, interleave with a request in progress
LoopFree == ~lst.active

(***************************************************************************)
(* save_job_status called from the background task: open(..., "w")         *)
(* truncates the file, then the text is written piece by piece             *)
(***************************************************************************)
\* the call save_job_status(job_id, status, progress, error) begins;
\* next is where the task continues when it returns
CallSave(j, status, progress, error, next) ==
    /\ pending' = [pending EXCEPT ![j] = <<Snapshot(j, status, progress, error)>>]
    /\ ret' = [ret EXCEPT ![j] = next]
    /\ pc' = [pc EXCEPT ![j] = "save_open"]

\* a raise that no handler catches: the task ends without a record
RaiseUncaught(j, message) ==
    /\ pc' = [pc EXCEPT ![j] = "done"]
    /\ UNCHANGED <<pending, ret>>

\* raise inside the try block: the handler at lines 235-237
Raise(j, message) == CallSave(j, "failed", 0, message, "done")

\* the open that truncates the file of every job
SaveOpenAll(j) ==
    /\ pc[j] = "save_open"
    /\ files' = [k \in Jobs |-> [exists |-> (files[k].exists \/ k = j), data |-> <<>>]]
    /\ pc' = [pc EXCEPT ![j] = "save_write"]
    /\ resp' = NoResp
    /\ UNCHANGED <<hist, locals, pending, ret, output, assets, lst>>

SaveOpen(j) ==
    /\ pc[j] = "save_open"
    /\ files' = [files EXCEPT ![j] = [exists |-> TRUE, data |-> <<>>]]
    /\ pc' = [pc EXCEPT ![j] = "save_write"]
    /\ resp' = NoResp
    /\ UNCHANGED <<hist, locals, pending, ret, output, assets, lst>>

SaveWrite(j, n) ==
    /\ pc[j] = "save_write"
    /\ LET text == json_dump(pending[j][1])
           written == Len(files[j].data)
       IN /\ n \in 1..(Len(text) - written)
          /\ files' = [files EXCEPT ![j].data = SubSeq(text, 1, written + n)]
          /\ IF written + n = Len(text)
             THEN /\ hist' = [hist EXCEPT ![j] = Append(@, pending[j][1])]
                  /\ pending' = [pending EXCEPT ![j] = <<>>]
                  /\ pc' = [pc EXCEPT ![j] = ret[j]]
                  /\ ret' = [ret EXCEPT ![j] = "none"]
             ELSE UNCHANGED <<hist, pending, pc, ret>>
    /\ resp' = NoResp
    /\ UNCHANGED <<locals, output, assets, lst>>

(***************************************************************************)
(* process_video_task, the background task of one job                      *)
(***************************************************************************)
\* the duration probe without the test for 0
ProbeDurationUnchecked(j, d) ==
    /\ pc[j] = "queued"
    /\ total_duration' = [total_duration EXCEPT ![j] = d]
    /\ pc' = [pc EXCEPT ![j] = "probe_dims"]
    /\ resp' = NoResp
    /\ UNCHANGED <<files, hist, probe_out, overlays, cmd, pending, ret, nlines, proc,
                   output, assets, lst>>

\* line 131-133: get_video_duration; d = 0 is ffprobe failing (the except
\* branch returns 0.0) or reporting 0
ProbeDuration(j, d) ==
    /\ pc[j] = "queued"
    /\ total_duration' = [total_duration EXCEPT ![j] = d]
    /\ IF d = 0
       THEN Raise(j, "Could not determine video duration. Is the file corrupted?")
       ELSE /\ pc' = [pc EXCEPT ![j] = "probe_dims"]
            /\ UNCHANGED <<pending, ret>>
    /\ resp' = NoResp
    /\ UNCHANGED <<files, hist, probe_out, overlays, cmd, nlines, proc, output, assets,
                   lst>>

\* lines 136-151: the dimension probe, then save_job_status(job_id, "processing", 0)
ProbeDimensions(j, out) ==
    /\ pc[j] = "probe_dims"
    /\ probe_out' = [probe_out EXCEPT ![j] = out]
    /\ CASE out.kind = "error" -> Raise(j, "CalledProcessError")
         [] out.kind = "empty" -> Raise(j, "Could not determine video dimensions.")
         [] out.kind = "nonnumeric" -> Raise(j, "ValueError")
         [] OTHER -> CallSave(j, "processing", 0, None, "build")
    /\ resp' = NoResp
    /\ UNCHANGED <<files, hist, total_duration, overlays, cmd, nlines, proc, output,
                   assets, lst>>

\* lines 153-207: the loop over the overlays and the command
BuildFilter(j) ==
    /\ pc[j] = "build"
    /\ cmd' = [cmd EXCEPT ![j] =
                Compile(j, overlays[j], probe_out[j].W, probe_out[j].H, assets)]
    /\ pc' = [pc EXCEPT ![j] = "launch"]
    /\ resp' = NoResp
    /\ UNCHANGED <<files, hist, total_duration, probe_out, overlays, pending, ret, nlines,
                   proc, output, assets, lst>>

\* lines 211-215: subprocess.Popen; started = FALSE is the launch failing
Launch(j, started) ==
    /\ pc[j] = "launch"
    /\ IF started
       THEN /\ proc' = [proc EXCEPT ![j] = "running"]
            /\ pc' = [pc EXCEPT ![j] = "reading"]
            /\ UNCHANGED <<pending, ret>>
       ELSE /\ proc' = [proc EXCEPT ![j] = "launch_failed"]
            /\ Raise(j, "OSError")
    /\ resp' = NoResp
    /\ UNCHANGED <<files, hist, total_duration, probe_out, overlays, cmd, nlines, output,
                   assets, lst>>

MaxLines == 2

\* lines 219-225: one line of process.stderr; the engine writes the output
\* file while it reports elapsed time
ReadLine(j, line) ==
    /\ pc[j] = "reading"
    /\ nlines[j] < MaxLines
    /\ nlines' = [nlines EXCEPT ![j] = @ + 1]
    /\ IF line.marker
       THEN /\ output' = [output EXCEPT ![j] = TRUE]
            /\ IF total_duration[j] > 0
               THEN CallSave(j, "processing", LineProgress(line, total_duration[j]),
                             None, "reading")
               ELSE UNCHANGED <<pending, ret, pc>>
       ELSE UNCHANGED <<output, pending, ret, pc>>
    /\ resp' = NoResp
    /\ UNCHANGED <<files, hist, total_duration, probe_out, overlays, cmd, proc, assets, lst>>

\* the child closes its diagnostic stream: the for loop ends
EndOfStream(j) ==
    /\ pc[j] = "reading"
    /\ pc' = [pc EXCEPT ![j] = "wait"]
    /\ resp' = NoResp
    /\ UNCHANGED <<files, hist, locals, pending, ret, output, assets, lst>>

\* the end of the task with the raise outside the else branch: after the
\* record of completed the task comes back to the test of the return code
WaitThenRaise(j, returncode) ==
    /\ pc[j] = "wait"
    /\ IF returncode = 0
       THEN /\ proc' = [proc EXCEPT ![j] = "exit0"]
            /\ output' = [output EXCEPT ![j] = TRUE]
            /\ CallSave(j, "completed", 100, None, "wait")
       ELSE /\ proc' = [proc EXCEPT ![j] = "exit1"]
            /\ UNCHANGED output
            /\ Raise(j, "FFmpeg process failed")
    /\ resp' = NoResp
    /\ UNCHANGED <<files, hist, total_duration, probe_out, overlays, cmd, nlines, assets,
                   lst>>

\* the end of the task without the test of the return code
WaitIgnoresCode(j, returncode) ==
    /\ pc[j] = "wait"
    /\ proc' = [proc EXCEPT ![j] = IF returncode = 0 THEN "exit0" ELSE "exit1"]
    /\ output' = [output EXCEPT ![j] = TRUE]
    /\ CallSave(j, "completed", 100, None, "done")
    /\ resp' = NoResp
    /\ UNCHANGED <<files, hist, total_duration, probe_out, overlays, cmd, nlines, assets,
                   lst>>

\* lines 227-233: process.wait() and the return code
Wait(j, returncode) ==
    /\ pc[j] = "wait"
    /\ IF returncode = 0
       THEN /\ proc' = [proc EXCEPT ![j] = "exit0"]
            /\ output' = [output EXCEPT ![j] = TRUE]
            /\ CallSave(j, "completed", 100, None, "done")
       ELSE /\ proc' = [proc EXCEPT ![j] = "exit1"]
            /\ UNCHANGED output
            /\ Raise(j, "FFmpeg process failed")
    /\ resp' = NoResp
    /\ UNCHANGED <<files, hist, total_duration, probe_out, overlays, cmd, nlines, assets, lst>>

(***************************************************************************)
(* The requests                                                            *)
(***************************************************************************)
\* the submission without its save_job_status
upload_video_unrecorded(j, ovs) ==
    /\ LoopFree
    /\ pc[j] = "unused"
    /\ overlays' = [overlays EXCEPT ![j] = [i \in 1..Len(ovs) |-> OverlayMetadata(ovs[i])]]
    /\ pc' = [pc EXCEPT ![j] = "queued"]
    /\ resp' = Response("upload", j, 200, "processing", <<>>)
    /\ UNCHANGED <<files, hist, total_duration, probe_out, cmd, pending, ret, nlines,
                   proc, output, assets, lst>>

\* POST /upload with a well-formed overlay list: lines 250-265.  The file is
\* written by save_job_status before any other coroutine or the job's task runs.
upload_video(j, ovs) ==
    /\ LoopFree
    /\ pc[j] = "unused"
    /\ files' = [files EXCEPT ![j] =
                    [exists |-> TRUE, data |-> json_dump(Snapshot(j, "processing", 0, None))]]
    /\ hist' = [hist EXCEPT ![j] = Append(@, Snapshot(j, "processing", 0, None))]
    /\ overlays' = [overlays EXCEPT ![j] = [i \in 1..Len(ovs) |-> OverlayMetadata(ovs[i])]]
    /\ pc' = [pc EXCEPT ![j] = "queued"]
    /\ resp' = Response("upload", j, 200, "processing", <<>>)
    /\ UNCHANGED <<total_duration, probe_out, cmd, pending, ret, nlines, proc, output,
                   assets, lst>>

\* POST /upload with an overlay payload that does not parse: lines 259-260, 266-267
upload_rejected ==
    /\ LoopFree
    /\ resp' = Response("upload", "", 500, "Invalid JSON overlays", <<>>)
    /\ UNCHANGED <<files, hist, pc, locals, pending, ret, output, assets, lst>>

\* POST /upload-overlay
upload_overlay(a) ==
    /\ LoopFree
    /\ a \notin assets
    /\ assets' = assets \cup {a}
    /\ resp' = Response("upload-overlay", "", 200, "stored", <<a>>)
    /\ UNCHANGED <<files, hist, pc, locals, pending, ret, output, lst>>

\* GET /status/{job_id}
get_status(j) ==
    /\ LoopFree
    /\ LET status == load_job_status(files[j])
       IN resp' = IF status = <<>>
                  THEN Response("status", j, 404, "Job not found", <<>>)
                  ELSE Response("status", j, 200, "", status)
    /\ UNCHANGED <<files, hist, pc, locals, pending, ret, output, assets, lst>>

\* the result request without the test of the status
get_result_unchecked(j) ==
    /\ LoopFree
    /\ LET status == load_job_status(files[j])
       IN resp' = IF status = <<>>
                  THEN Response("result", j, 404, "Job not found", <<>>)
                  ELSE IF ~output[j]
                  THEN Response("result", j, 404, "File missing", <<>>)
                  ELSE Response("result", j, 200, "artifact", <<>>)
    /\ UNCHANGED <<files, hist, pc, locals, pending, ret, output, assets, lst>>

\* GET /result/{job_id}
get_result(j) ==
    /\ LoopFree
    /\ LET status == load_job_status(files[j])
       IN resp' = IF status = <<>>
                  THEN Response("result", j, 404, "Job not found", <<>>)
                  ELSE IF status[1].status # "completed"
                  THEN Response("result", j, 400, "Not ready", <<>>)
                  ELSE IF ~output[j]
                  THEN Response("result", j, 404, "File missing", <<>>)
                  ELSE Response("result", j, 200, "artifact", <<>>)
    /\ UNCHANGED <<files, hist, pc, locals, pending, ret, output, assets, lst>>

\* GET /jobs, line 303: the glob
list_begin ==
    /\ LoopFree
    /\ LET found == {j \in Jobs : files[j].exists}
       IN IF found = {}
          THEN /\ resp' = Response("jobs", "", 200, "", <<>>)
               /\ UNCHANGED lst
          ELSE /\ lst' = [active |-> TRUE, todo |-> found, acc |-> <<>>]
               /\ resp' = NoResp
    /\ UNCHANGED <<files, hist, pc, locals, pending, ret, output, assets>>

\* GET /jobs, lines 304-306: json.load of the next file of the glob
list_read(j) ==
    /\ lst.active
    /\ j \in lst.todo
    /\ LET parsed == json_loads(files[j].data)
       IN IF parsed.raised
          THEN /\ lst' = NoList
               /\ resp' = Response("jobs", "", 500, "JSONDecodeError", <<>>)
          ELSE IF lst.todo = {j}
          THEN /\ lst' = NoList
               /\ resp' = Response("jobs", "", 200, "", lst.acc \o parsed.val)
          ELSE /\ lst' = [lst EXCEPT !.todo = @ \ {j}, !.acc = @ \o parsed.val]
               /\ resp' = NoResp
    /\ UNCHANGED <<files, hist, pc, locals, pending, ret, output, assets>>

(***************************************************************************)
(* Process restart: lines 45-56                                            *)
(***************************************************************************)
\* a restart that leaves JOBS_DIR as it is
RestartKeepsFiles ==
    /\ \E j \in Jobs : pc[j] \notin {"unused", "dead"}
    /\ pc' = [j \in Jobs |-> IF pc[j] = "unused" THEN "unused" ELSE "dead"]
    /\ pending' = [j \in Jobs |-> <<>>]
    /\ ret' = [j \in Jobs |-> "none"]
    /\ total_duration' = [j \in Jobs |-> 0]
    /\ probe_out' = [j \in Jobs |-> NotProbed]
    /\ overlays' = [j \in Jobs |-> <<>>]
    /\ cmd' = [j \in Jobs |-> NoCmd]
    /\ nlines' = [j \in Jobs |-> 0]
    /\ lst' = NoList
    /\ resp' = NoResp
    /\ UNCHANGED <<files, hist, proc, output, assets>>

\* the server process ends (its tasks and their locals with it; the engine's
\* children are processes of their own) and a new one starts: every file of
\* JOBS_DIR is unlinked; the identifiers of the old run are never issued again
Restart ==
    /\ \E j \in Jobs : pc[j] \notin {"unused", "dead"}
    /\ files' = [j \in Jobs |-> NoFile]
    /\ pc' = [j \in Jobs |-> IF pc[j] = "unused" THEN "unused" ELSE "dead"]
    /\ pending' = [j \in Jobs |-> <<>>]
    /\ ret' = [j \in Jobs |-> "none"]
    /\ total_duration' = [j \in Jobs |-> 0]
    /\ probe_out' = [j \in Jobs |-> NotProbed]
    /\ overlays' = [j \in Jobs |-> <<>>]
    /\ cmd' = [j \in Jobs |-> NoCmd]
    /\ nlines' = [j \in Jobs |-> 0]
    /\ lst' = NoList
    /\ resp' = NoResp
    /\ UNCHANGED <<hist, proc, output, assets>>

(***************************************************************************)
(* Inputs and specifications                                               *)
(***************************************************************************)
\* an overlay item of the request
Item(type, content, start_time, end_time, x, y, width, height) ==
    [type |-> type, content |-> content, start_time |-> start_time,
     end_time |-> end_time, x |-> x, y |-> y, width |-> width, height |-> height]

\* an item shown from second 1 to 3 at the centre, without width and height;
\* the content is a sequence of characters, a file name being held as one
Overlay(type, content) == Item(type, content, 1, 3, 50, 50, Absent, Absent)
APng == <<"a.png">>
BMp4 == <<"b.mp4">>
Hi == <<"H", "i">>

\* what ffprobe can report for the duration (whole seconds; 0 is failure)
Durations == {0, 100}
DimOutcomes == {ProbeError, ProbeEmpty, ProbeNonNumeric, ProbeOk(1920, 1080)}
\* diagnostic lines: no marker, time=00:00:50.00, time=00:01:40.00
Lines == {NoMarker, Marker(0, 0, 50, 0), Marker(0, 1, 40, 0)}
Assets == {APng, BMp4}
ReturnCodes == {0, 1}

TaskStep(j) ==
    \/ \E d \in Durations : ProbeDuration(j, d)
    \/ \E out \in DimOutcomes : ProbeDimensions(j, out)
    \/ BuildFilter(j)
    \/ \E started \in BOOLEAN : Launch(j, started)
    \/ \E line \in Lines : ReadLine(j, line)
    \/ EndOfStream(j)
    \/ \E rc \in ReturnCodes : Wait(j, rc)
    \/ SaveOpen(j)
    \/ \E n \in 1..Len(Keys) : SaveWrite(j, n)

\* Spec: one job from submission to its end, every outcome of the probes,
\* the launch and the engine, with the requests and a restart in between
Next ==
    \/ TaskStep("j1")
    \/ \E ovs \in {<<>>, <<Overlay("image", APng)>>} : upload_video("j1", ovs)
    \/ upload_rejected
    \/ upload_overlay(APng)
    \/ \E j \in Jobs : get_status(j)
    \/ \E j \in Jobs : get_result(j)
    \/ list_begin
    \/ \E j \in Jobs : list_read(j)
    \/ Restart

Spec == Init /\ [][Next]_vars

\* SpecJobs: two jobs side by side whose probes and launch succeed, and
\* the listing
JobStep(j) ==
    \/ ProbeDuration(j, 100)
    \/ ProbeDimensions(j, ProbeOk(1920, 1080))
    \/ BuildFilter(j)
    \/ Launch(j, TRUE)
    \/ ReadLine(j, Marker(0, 0, 50, 0))
    \/ EndOfStream(j)
    \/ \E rc \in ReturnCodes : Wait(j, rc)
    \/ SaveOpen(j)
    \/ \E n \in 1..Len(Keys) : SaveWrite(j, n)

NextJobs ==
    \/ \E j \in Jobs : JobStep(j)
    \/ \E j \in Jobs : upload_video(j, <<>>)
    \/ list_begin
    \/ \E j \in Jobs : list_read(j)

SpecJobs == Init /\ [][NextJobs]_vars

\* SpecOverlays: one job over every overlay list of up to MaxOverlays
\* elements, with any of the assets stored or missing
MaxOverlays == 2
OverlayPool == {Overlay("text", Hi), Overlay("image", APng),
                Overlay("video", BMp4), Overlay("sticker", APng)}
OverlayLists == UNION {[1..n -> OverlayPool] : n \in 0..MaxOverlays}

NextOverlays ==
    \/ TaskStep("j1")
    \/ \E ovs \in OverlayLists : upload_video("j1", ovs)
    \/ \E a \in Assets : upload_overlay(a)

SpecOverlays == Init /\ [][NextOverlays]_vars

(***************************************************************************)
(* Properties                                                              *)
(***************************************************************************)
Last(seq) == seq[Len(seq)]
Range(seq) == {seq[i] : i \in 1..Len(seq)}
Terminal == {"completed", "failed"}

\* C1: the snapshots recorded for a job start with queued or processing, and
\* a completed or failed snapshot is the last one ever recorded: it is
\* recorded once, nothing is recorded after it, no write of the job's file
\* is in progress or begins after it, and the file keeps holding it.
C1_TerminalAbsorbs ==
    \A j \in Jobs :
        /\ hist[j] # <<>> => hist[j][1].status \in {"queued", "processing"}
        /\ \A i \in 1..Len(hist[j]) :
              /\ hist[j][i].status \in {"queued", "processing"} \cup Terminal
              /\ hist[j][i].status \in Terminal => i = Len(hist[j])
        /\ (hist[j] # <<>> /\ Last(hist[j]).status \in Terminal) =>
              /\ pc[j] \in {"done", "dead"}
              /\ pending[j] = <<>>
              /\ pc[j] = "done" =>
                    files[j] = [exists |-> TRUE, data |-> json_dump(Last(hist[j]))]

\* a job that went through processing, a progress update and completed
C1_Witness ==
    \E j \in Jobs :
        /\ pc[j] = "done"
        /\ Len(hist[j]) >= 4
        /\ hist[j][3].status = "processing" /\ hist[j][3].progress > 0
        /\ Last(hist[j]).status = "completed"

\* the duration probe returned 0, or the dimension probe failed, printed
\* nothing or printed something that is not WxH
ProbeFailed(j) ==
    \/ pc[j] \notin {"unused", "queued", "dead"} /\ total_duration[j] = 0
    \/ probe_out[j].kind \in {"error", "empty", "nonnumeric"}

\* C2: after a failed probe the engine is never launched (no command is
\* built, no child exists), the only snapshot the task records is failed
\* with an error that is not null, and that is the job's final snapshot.
C2_ProbeFailureFails ==
    \A j \in Jobs :
        ProbeFailed(j) =>
            /\ proc[j] = "none"
            /\ cmd[j] = NoCmd
            /\ pc[j] \in {"save_open", "save_write", "done"}
            /\ pc[j] # "done" =>
                  /\ pending[j] # <<>>
                  /\ pending[j][1].status = "failed"
                  /\ pending[j][1].error # None
                  /\ ret[j] = "done"
            /\ pc[j] = "done" =>
                  /\ Last(hist[j]).status = "failed"
                  /\ Last(hist[j]).error # None
                  /\ load_job_status(files[j]) = <<Last(hist[j])>>

\* a job ended by a dimension probe that printed no WxH, and one ended by
\* a duration of 0
C2_Witness ==
    \E j \in Jobs :
        /\ pc[j] = "done"
        /\ probe_out[j].kind = "nonnumeric" \/ total_duration[j] = 0
        /\ Last(hist[j]).status = "failed"

\* C3: once the engine was launched, the final snapshot is (completed, 100,
\* null) exactly when the child exited with code 0, and failed with an error
\* that is not null after any other exit or a failed launch; no completed
\* snapshot is ever recorded unless the child exited with code 0.
C3_ExitDecides ==
    \A j \in Jobs :
        /\ \A i \in 1..Len(hist[j]) :
              hist[j][i].status = "completed" =>
                  /\ proc[j] = "exit0"
                  /\ hist[j][i] = Snapshot(j, "completed", 100, None)
        /\ (pending[j] # <<>> /\ pending[j][1].status = "completed") => proc[j] = "exit0"
        /\ (pc[j] = "done" /\ proc[j] # "none") =>
              IF proc[j] = "exit0"
              THEN Last(hist[j]) = Snapshot(j, "completed", 100, None)
              ELSE /\ Last(hist[j]).status = "failed"
                   /\ Last(hist[j]).error # None

\* a job whose engine exited with a code other than 0 and that ended failed
C3_Witness ==
    \E j \in Jobs :
        /\ pc[j] = "done"
        /\ proc[j] = "exit1"
        /\ Last(hist[j]) = Snapshot(j, "failed", 0, "FFmpeg process failed")

\* every snapshot of a job: recorded, being written, or readable in its file
Snapshots(j) == Range(hist[j]) \cup Range(pending[j]) \cup Range(load_job_status(files[j]))

\* C4: every snapshot has a progress in 0..100; 100 appears only with
\* completed, and a processing snapshot has a progress in 0..99 whatever
\* elapsed time the engine printed.
C4_ProgressRange ==
    \A j \in Jobs : \A snap \in Snapshots(j) :
        /\ snap.progress \in 0..100
        /\ snap.progress = 100 => snap.status = "completed"
        /\ snap.status = "processing" => snap.progress \in 0..99

\* a marker beyond the duration (00:01:40.00 of 100 s) was recorded as 99
C4_Witness ==
    \E j \in Jobs :
        /\ total_duration[j] = 100
        /\ Snapshot(j, "processing", 99, None) \in Range(hist[j])

\* C5: whatever point a concurrent record of the job has reached (file
\* truncated, written in part, or complete), load returns None or one
\* snapshot that was completely recorded for that job; a file that is empty
\* or cut off reads as None; a status request answers 404 or 200 with such a
\* snapshot, never anything else.
C5_LoadNeverCorrupt ==
    /\ \A j \in Jobs :
          /\ load_job_status(files[j]) \in {<<>>} \cup {<<snap>> : snap \in Range(hist[j])}
          /\ (files[j].exists /\ Len(files[j].data) < Len(Keys)) =>
                load_job_status(files[j]) = <<>>
    /\ resp.op = "status" =>
          \/ resp.code = 404 /\ resp.body = <<>>
          \/ /\ resp.code = 200
             /\ Len(resp.body) = 1
             /\ resp.body[1] \in Range(hist[resp.job])

\* a status request that met the file of a known job in the middle of a
\* write and answered not found
C5_Witness ==
    /\ resp.op = "status"
    /\ resp.code = 404
    /\ hist[resp.job] # <<>>
    /\ pc[resp.job] = "save_write"
    /\ files[resp.job].exists
    /\ Len(files[resp.job].data) \in 1..(Len(Keys) - 1)

\* C6: a listing never ends in an error: it answers 200, also when the file
\* of a job is empty or cut off by a record in progress.
C6_ListNeverFails ==
    resp.op = "jobs" => resp.code = 200

\* C7: a result request returns the artifact only when the job's current
\* snapshot is completed (the engine exited with 0); for a job that is
\* unknown, unreadable, processing or failed it answers 404 or 400, also
\* when an output file of the running or failed engine exists.
C7_ResultOnlyCompleted ==
    resp.op = "result" =>
        LET cur == load_job_status(files[resp.job])
        IN /\ resp.code \in {200, 400, 404}
           /\ resp.code = 200 =>
                 /\ cur # <<>>
                 /\ cur[1].status = "completed"
                 /\ proc[resp.job] = "exit0"
                 /\ output[resp.job]
           /\ (cur = <<>> \/ cur[1].status # "completed") => resp.code \in {400, 404}

\* a result request for a failed job whose partial output file exists,
\* answered not ready
C7_Witness ==
    /\ resp.op = "result"
    /\ resp.code = 400
    /\ output[resp.job]
    /\ pc[resp.job] = "done"
    /\ Last(hist[resp.job]).status = "failed"

\* the task of the job has not yet begun its first write of the job's file
BeforeFirstWrite(j) ==
    /\ pc[j] \in {"queued", "probe_dims", "save_open"}
    /\ Len(hist[j]) <= 1

\* C8: when the submission answers, a complete snapshot of the job with
\* status queued or processing is in the store and the job's task has not
\* started; no task runs for a job without that record; until the task's
\* first write a load finds the job and a status request answers 200.
C8_RecordedBeforeReturn ==
    /\ (resp.op = "upload" /\ resp.code = 200) =>
          /\ pc[resp.job] = "queued"
          /\ load_job_status(files[resp.job]) # <<>>
          /\ load_job_status(files[resp.job])[1].status \in {"queued", "processing"}
    /\ \A j \in Jobs :
          /\ pc[j] \notin {"unused", "dead"} =>
                hist[j] # <<>> /\ hist[j][1].status \in {"queued", "processing"}
          /\ BeforeFirstWrite(j) => load_job_status(files[j]) # <<>>
    /\ (resp.op = "status" /\ BeforeFirstWrite(resp.job)) => resp.code = 200

\* a status request between the submission and the start of the task,
\* answered with the job
C8_Witness ==
    /\ resp.op = "status"
    /\ resp.code = 200
    /\ pc[resp.job] = "queued"

MissingAsset(j, i) ==
    /\ overlays[j][i].type \in {"image", "video"}
    /\ overlays[j][i].content \notin assets

\* the overlays of the job that can have produced stages
Texts(j) == {i \in 1..Len(overlays[j]) : overlays[j][i].type = "text"}
StoredAssets(j) ==
    {i \in 1..Len(overlays[j]) :
        overlays[j][i].type \in {"image", "video"} /\ overlays[j][i].content \in assets}

\* C10: an overlay whose asset is missing adds no input and no stage to the
\* command (its path is not among the inputs, no stage carries its labels,
\* and inputs and stages number at most those of the other overlays); a job
\* ends failed only after a failed probe, a failed launch or an exit code
\* other than 0, and a job whose probes succeeded and whose engine exited
\* with 0 ends completed whichever of its overlays name missing assets.
C10_MissingAssetSkipped ==
    \A j \in Jobs :
        /\ cmd[j] # NoCmd =>
              /\ \A i \in 1..Len(overlays[j]) :
                    MissingAsset(j, i) =>
                        /\ OverlayPath(overlays[j][i].content) \notin Range(cmd[j].input_args)
                        /\ \A st \in Range(cmd[j].filter_complex) :
                              st.out \notin {<<"v", i>>, <<"sc", i - 1>>}
              /\ Len(cmd[j].input_args) <= 2 * (1 + Cardinality(StoredAssets(j)))
              /\ cmd[j].filter_complex # NullGraph =>
                    Len(cmd[j].filter_complex)
                        <= Cardinality(Texts(j)) + 2 * Cardinality(StoredAssets(j))
        /\ (pc[j] = "done" /\ Last(hist[j]).status = "failed") =>
              \/ total_duration[j] = 0
              \/ probe_out[j].kind # "ok"
              \/ proc[j] \in {"launch_failed", "exit1"}
        /\ (pc[j] = "done" /\ total_duration[j] > 0 /\ probe_out[j].kind = "ok"
                /\ proc[j] = "exit0") =>
              Last(hist[j]) = Snapshot(j, "completed", 100, None)

\* a completed job one of whose overlays names a missing asset while
\* another one produced a stage
C10_Witness ==
    \E j \in Jobs :
        /\ pc[j] = "done"
        /\ Last(hist[j]).status = "completed"
        /\ \E i \in 1..Len(overlays[j]) : MissingAsset(j, i)
        /\ cmd[j].filter_complex # NullGraph

(***************************************************************************)
(* Progress extraction over more durations and markers                     *)
(***************************************************************************)
\* SpecProgress: one job whose probes and launch succeed, over several
\* durations and elapsed-time markers
ProgressDurations == {3, 7, 60, 100}
ProgressLines == {NoMarker, Marker(0, 0, 0, 0), Marker(0, 0, 2, 50), Marker(0, 0, 29, 0),
                  Marker(0, 0, 50, 0), Marker(0, 1, 40, 0)}

NextProgress ==
    \/ upload_video("j1", <<>>)
    \/ \E d \in ProgressDurations : ProbeDuration("j1", d)
    \/ ProbeDimensions("j1", ProbeOk(1920, 1080))
    \/ BuildFilter("j1")
    \/ Launch("j1", TRUE)
    \/ \E line \in ProgressLines : ReadLine("j1", line)
    \/ EndOfStream("j1")
    \/ \E rc \in ReturnCodes : Wait("j1", rc)
    \/ SaveOpen("j1")
    \/ SaveWrite("j1", Len(Keys))

SpecProgress == Init /\ [][NextProgress]_vars

\* min(99, floor(100 * (h*3600 + m*60 + s.ff) / D)), in exact arithmetic
ExactProgress(line, D) ==
    Min((360000 * line.h + 6000 * line.m + 100 * line.s + line.f) \div D, 99)

\* C11: reading a line with the marker HH:MM:SS.ff records the progress
\* min(99, floor(100 * (h*3600 + m*60 + s) / D)) for the duration D > 0;
\* reading a line without a marker records nothing and leaves the job's
\* snapshot as it is.
C11_ProgressIsFloor ==
    [][\A line \in ProgressLines :
          ReadLine("j1", line) =>
              IF line.marker
              THEN /\ pending'["j1"] # <<>>
                   /\ pending'["j1"][1].status = "processing"
                   /\ pending'["j1"][1].progress = ExactProgress(line, total_duration["j1"])
              ELSE /\ pending'["j1"] = <<>>
                   /\ pc'["j1"] = "reading"
                   /\ files' = files /\ hist' = hist]_vars

(***************************************************************************)
(* Time windows.                                                           *)
(***************************************************************************)
\* start and end times of the submitted overlays, in seconds
WindowTimes == {0, 1, 2}

\* one overlay per job, text or image, with every window over WindowTimes
TimedLists ==
    {<<Item(tc[1], tc[2], s, e, 50, 50, Absent, Absent)>> :
        tc \in {<<"text", Hi>>, <<"image", APng>>}, s \in WindowTimes, e \in WindowTimes}

NextTimes ==
    \/ \E ovs \in TimedLists : upload_video("j1", ovs)
    \/ upload_overlay(APng)
    \/ ProbeDuration("j1", 100)
    \/ ProbeDimensions("j1", ProbeOk(1920, 1080))
    \/ BuildFilter("j1")
    \/ Launch("j1", TRUE)
    \/ EndOfStream("j1")
    \/ Wait("j1", 0)
    \/ SaveOpen("j1")
    \/ SaveWrite("j1", Len(Keys))

SpecTimes == Init /\ [][NextTimes]_vars

\* between(t, lo, hi) of the engine's expression language: lo <= t <= hi
Between(t, lo, hi) == lo <= t /\ t <= hi

\* presentation times of the frames of the output, in seconds
FrameTimes == 0..3

GatedStages(j) ==
    {k \in 1..Len(cmd[j].filter_complex) : cmd[j].filter_complex[k].enable # <<>>}

\* C12: an overlay with start_time >= end_time compiles to a gated stage
\* whose predicate start_time <= t <= end_time holds at no frame time
C12_EmptyWindowNeverRenders ==
    /\ pc["j1"] \in {"launch", "reading", "waiting"} /\ overlays["j1"] # <<>>
       /\ (overlays["j1"][1].type = "text" \/ overlays["j1"][1].content \in assets)
           => GatedStages("j1") # {}
    /\ \A k \in GatedStages("j1") :
          LET en == cmd["j1"].filter_complex[k].enable
          IN en[1] >= en[2] => \A t \in FrameTimes : ~Between(t, en[1], en[2])

(***************************************************************************)
(* The compiled graph                                                      *)
(***************************************************************************)
\* the overlay is of a kind that is drawn and, for an image or a clip, its
\* asset is among the stored ones
ProducesStage(ov, stored) ==
    \/ ov.type = "text"
    \/ ov.type \in {"image", "video"} /\ ov.content \in stored

\* C13: the graph handed to the engine is never empty, and it is the
\* pass-through graph exactly when no overlay of the job produced a stage
\* (empty list, missing assets, kinds that are not drawn)
C13_NeverEmptyGraph ==
    [][BuildFilter("j1") =>
          LET g == cmd'["j1"].filter_complex
          IN /\ g # <<>>
             /\ g = NullGraph <=>
                   \A i \in 1..Len(overlays["j1"]) : ~ProducesStage(overlays["j1"][i], assets)
             /\ g # NullGraph => \A k \in 1..Len(g) : g[k].filter # "null"]_vars

\* the pass-through graph compiled for a job that has overlays
C13_Witness ==
    /\ pc["j1"] = "launch"
    /\ overlays["j1"] # <<>>
    /\ cmd["j1"].filter_complex = NullGraph

(***************************************************************************)
(* Pixel geometry                                                          *)
(***************************************************************************)
\* SpecGeometry: one job with one overlay, text or image, over several
\* fractional sizes and positions and two frame sizes
Widths == {Absent, Num(0), Num(50)}
Heights == {Absent, Null, Num(0), Num(1), Num(35)}
Ordinates == {35, 50}
Frames == {ProbeOk(1920, 1080), ProbeOk(1280, 720)}

GeometryLists ==
    {<<Item(tc[1], tc[2], 1, 3, 50, y, w, h)>> :
        tc \in {<<"text", Hi>>, <<"image", APng>>}, y \in Ordinates,
        w \in Widths, h \in Heights}

NextGeometry ==
    \/ \E ovs \in GeometryLists : upload_video("j1", ovs)
    \/ upload_overlay(APng)
    \/ ProbeDuration("j1", 100)
    \/ \E out \in Frames : ProbeDimensions("j1", out)
    \/ BuildFilter("j1")
    \/ Launch("j1", TRUE)
    \/ EndOfStream("j1")
    \/ Wait("j1", 0)
    \/ SaveOpen("j1")
    \/ SaveWrite("j1", Len(Keys))

SpecGeometry == Init /\ [][NextGeometry]_vars

\* floor of the exact product of the fraction n/100 and size
FloorPx(n, size) == (n * size) \div 100

\* the largest even integer not exceeding n
EvenFloor(n) == 2 * (n \div 2)

StagesOf(j, filter) == {st \in Range(cmd[j].filter_complex) : st.filter = filter}

\* C14: the scale stage of an image or clip overlay of fractional size
\* (w, h) carries even sizes, the largest even integers not exceeding
\* floor(w*W) and floor(h*H)
C14_EvenSizes ==
    \A st \in StagesOf("j1", "scale") :
        LET ov == overlays["j1"][1]
        IN (ov.width[1] = "num" /\ ov.height[1] = "num") =>
              /\ st.w % 2 = 0 /\ st.h % 2 = 0
              /\ st.w = EvenFloor(FloorPx(ov.width[2], probe_out["j1"].W))
              /\ st.h = EvenFloor(FloorPx(ov.height[2], probe_out["j1"].H))

\* the fractional height (in hundredths) the draw-text stage is to use: 0.05
\* for an overlay submitted with no height.  No item of GeometryLists gives
\* the height 0.2, so a stored height of 0.2 is that of an item submitted
\* without one
TextHeight(ov) ==
    IF ov.height = Null \/ ov.height = OverlayMetadata(Overlay("text", Hi)).height
    THEN 5 ELSE ov.height[2]

\* C15: a text overlay compiles to a draw-text stage at (floor(x*W),
\* floor(y*H)) with font size max(16, floor(height*H)), the height being 0.05
\* when the overlay was submitted with none (54 on a 1920x1080 frame)
C15_TextGeometry ==
    \A st \in StagesOf("j1", "drawtext") :
        LET ov == overlays["j1"][1]
            W == probe_out["j1"].W
            H == probe_out["j1"].H
        IN /\ st.x = FloorPx(ov.x, W)
           /\ st.y = FloorPx(ov.y, H)
           /\ st.fontsize = Max(16, FloorPx(TextHeight(ov), H))

(***************************************************************************)
(* Text escaping                                                           *)
(***************************************************************************)
\* SpecText: one job with one text overlay over every content of up to
\* MaxText characters out of quote, colon, backslash and a letter
MaxText == 2
TextAlphabet == {Quote, Colon, Backslash, "a"}
TextContents == UNION {[1..n -> TextAlphabet] : n \in 1..MaxText}
TextLists == {<<Overlay("text", content)>> : content \in TextContents}

NextText ==
    \/ \E ovs \in TextLists : upload_video("j1", ovs)
    \/ ProbeDuration("j1", 100)
    \/ ProbeDimensions("j1", ProbeOk(1920, 1080))
    \/ BuildFilter("j1")
    \/ Launch("j1", TRUE)
    \/ EndOfStream("j1")
    \/ Wait("j1", 0)
    \/ SaveOpen("j1")
    \/ SaveWrite("j1", Len(Keys))

SpecText == Init /\ [][NextText]_vars

\* lines 161-165: the characters of a draw-text stage from the filter name
\* to the output label; a run of ordinary characters is held as one symbol
TextKey == "text="
OtherOptions == <<"fontcolor=white", Colon, "fontsize=..:x=..:y=..", Colon,
                  "enable=", Quote, "between(t,..,..)", Quote>>
LabelOpen == "["
DrawtextArgs(st) ==
    <<TextKey, Quote>> \o st.text \o <<Quote, Colon>> \o OtherOptions \o <<LabelOpen>>

\* the engine's token reader: it reads str up to the first character of
\* term that is neither quoted nor escaped; a backslash outside quotes makes
\* the next character literal, a quote makes everything up to the next quote
\* literal.  The result is the token with quoting removed and the rest of str
RECURSIVE TokenFrom(_, _, _, _, _)
TokenFrom(str, i, term, quoted, out) ==
    IF i > Len(str) THEN [token |-> out, rest |-> <<>>]
    ELSE IF quoted
    THEN IF str[i] = Quote THEN TokenFrom(str, i + 1, term, FALSE, out)
         ELSE TokenFrom(str, i + 1, term, TRUE, Append(out, str[i]))
    ELSE IF str[i] \in term THEN [token |-> out, rest |-> SubSeq(str, i, Len(str))]
    ELSE IF str[i] = Backslash /\ i < Len(str)
    THEN TokenFrom(str, i + 2, term, FALSE, Append(out, str[i + 1]))
    ELSE IF str[i] = Quote THEN TokenFrom(str, i + 1, term, TRUE, out)
    ELSE TokenFrom(str, i + 1, term, FALSE, Append(out, str[i]))
Token(str, term) == TokenFrom(str, 1, term, FALSE, <<>>)

\* the engine reads a stage twice: the graph reader takes the filter's
\* arguments up to the next label or stage separator, the option reader then
\* takes each value of the arguments up to the next colon
GraphTerminators == {"[", "]", ",", ";"}
OptionTerminators == {Colon}
FilterArguments(st) == Token(DrawtextArgs(st), GraphTerminators)
TextValue(st) == Token(Tail(FilterArguments(st).token), OptionTerminators)

\* C16: read under the engine's quoting rules, the text option of the
\* draw-text stage ends at the closing quote the compiler emitted and its
\* value is the original content, whatever quotes, colons and backslashes
\* the content holds
C16_EscapedTextIsContent ==
    \A st \in StagesOf("j1", "drawtext") :
        /\ FilterArguments(st).rest = <<LabelOpen>>
        /\ TextValue(st).token = overlays["j1"][1].content
        /\ TextValue(st).rest = <<Colon, "fontcolor=white", Colon, "fontsize=..:x=..:y=..",
                                  Colon, "enable=", "between(t,..,..)">>

(***************************************************************************)
(* Chaining and input indices                                              *)
(***************************************************************************)
IsChainStage(st) == st.filter \in {"drawtext", "overlay"}

\* the draw-text and composite stages of a graph, in graph order
Chain(g) == SelectSeq(g, IsChainStage)

\* the positions of the overlays that produce a stage, in list order
Producing(ovs, stored) ==
    SelectSeq([i \in 1..Len(ovs) |-> i], LAMBDA i : ProducesStage(ovs[i], stored))

\* C17: the compiled graph is one chain in input order: the first draw-text
\* or composite stage reads the base stream, each later one reads the output
\* label of the one before it, the k-th one is that of the k-th overlay that
\* is not skipped, all output labels differ, and the mapped label is the
\* output of the last such stage (the base stream if there is none)
C17_OneChain ==
    [][BuildFilter("j1") =>
          LET g == cmd'["j1"].filter_complex
              chain == Chain(g)
              ovs == overlays["j1"]
              prod == Producing(ovs, assets)
          IN /\ Len(chain) = Len(prod)
             /\ \A k \in 1..Len(chain) :
                   /\ chain[k].ins[1] = IF k = 1 THEN BaseLabel ELSE chain[k - 1].out
                   /\ chain[k].filter = "drawtext" <=> ovs[prod[k]].type = "text"
                   /\ chain[k].enable = Enable(ovs[prod[k]])
             /\ \A a, b \in 1..Len(g) : a # b => g[a].out # g[b].out
             /\ \A a \in 1..Len(g) :
                   g[a].filter = "overlay" =>
                       a > 1 /\ g[a - 1].filter = "scale" /\ g[a].ins[2] = g[a - 1].out
             /\ cmd'["j1"].map = IF chain = <<>> THEN BaseLabel ELSE Last(chain).out]_vars

\* a built graph of two chained stages, a composite stage after another stage
C17_Witness ==
    /\ pc["j1"] = "launch"
    /\ Len(Chain(cmd["j1"].filter_complex)) = 2
    /\ Chain(cmd["j1"].filter_complex)[2].filter = "overlay"
    /\ cmd["j1"].map = Chain(cmd["j1"].filter_complex)[2].out

IsScaleStage(st) == st.filter = "scale"

\* the positions of the image and clip overlays whose asset is stored
WithInput(ovs, stored) ==
    SelectSeq([i \in 1..Len(ovs) |-> i],
              LAMBDA i : ovs[i].type \in {"image", "video"} /\ ovs[i].content \in stored)

\* C18: after the base video (input 0) the inputs are the assets of the
\* image and clip overlays that are not skipped, in overlay order, and the
\* scale stage of the k-th of them reads input k; text overlays and overlays
\* with a missing asset add no input and shift no index
C18_InputIndices ==
    [][BuildFilter("j1") =>
          LET args == cmd'["j1"].input_args
              scales == SelectSeq(cmd'["j1"].filter_complex, IsScaleStage)
              ovs == overlays["j1"]
              with == WithInput(ovs, assets)
          IN /\ Len(args) = 2 * (1 + Len(with))
             /\ args[1] = InputFlag /\ args[2] = VideoPath("j1")
             /\ \A k \in 1..Len(with) :
                   /\ args[2 * k + 1] = InputFlag
                   /\ args[2 * k + 2] = OverlayPath(ovs[with[k]].content)
             /\ Len(scales) = Len(with)
             /\ \A k \in 1..Len(with) :
                   /\ scales[k].ins = << <<"in", k>> >>
                   /\ scales[k].out = ScaledLabel(with[k] - 1)]_vars

\* a built command whose second overlay is the first one with an input, the
\* first being a text or a skipped overlay
C18_Witness ==
    /\ pc["j1"] = "launch"
    /\ Len(overlays["j1"]) = 2
    /\ Len(cmd["j1"].input_args) = 4
    /\ \E st \in StagesOf("j1", "scale") : st.ins = << <<"in", 1>> >> /\ st.out = ScaledLabel(1)

(***************************************************************************)
(* Termination                                                             *)
(***************************************************************************)
\* SpecLive: one job with every outcome of the probes, the launch and the
\* engine, polled while it runs.  The task runs in a worker thread of its
\* own, each probe returns, and the engine closes its diagnostic stream
\* after at most MaxLines lines and exits: a step of the task that stays
\* possible is eventually taken.  The job has no overlay or one whose asset
\* is missing; what the overlays compile to is the matter of SpecOverlays
NextLive ==
    \/ TaskStep("j1")
    \/ \E ovs \in {<<>>, <<Overlay("image", APng)>>} : upload_video("j1", ovs)
    \/ get_status("j1")

SpecLive == Init /\ [][NextLive]_vars /\ WF_vars(TaskStep("j1"))

\* the task of j has ended and the file of j holds a terminal snapshot, the
\* last one recorded
EndedTerminal(j) ==
    /\ pc[j] = "done"
    /\ hist[j] # <<>>
    /\ Last(hist[j]).status \in Terminal
    /\ load_job_status(files[j]) = <<Last(hist[j])>>

\* C19: every submitted job eventually has a terminal snapshot (completed or
\* failed) in the store, whatever fails inside its task
C19_EventuallyTerminal == (pc["j1"] # "unused") ~> EndedTerminal("j1")

\* a job whose engine could not be launched and that ended failed
C19_Witness ==
    /\ EndedTerminal("j1")
    /\ proc["j1"] = "launch_failed"
    /\ Last(hist["j1"]).status = "failed"

(***************************************************************************)
(* Isolation of the jobs in the store                                      *)
(***************************************************************************)
\* SpecIsolation: the two jobs of SpecJobs with the status and result
\* requests next to the listing
NextIsolation ==
    \/ NextJobs
    \/ \E j \in Jobs : get_status(j)
    \/ \E j \in Jobs : get_result(j)

SpecIsolation == Init /\ [][NextIsolation]_vars

\* a step of save_job_status(j, ...): from the submission of j or from the
\* task of j
Records(j) ==
    \/ upload_video(j, <<>>)
    \/ SaveOpen(j)
    \/ \E n \in 1..Len(Keys) : SaveWrite(j, n)

\* a step of a status, result or listing request
Reads ==
    \/ \E j \in Jobs : get_status(j)
    \/ \E j \in Jobs : get_result(j)
    \/ list_begin
    \/ \E j \in Jobs : list_read(j)

\* C20: a record of job j changes the file of j only; the file of j changes
\* only in a record step of j's submission or of j's task, which never
\* overlap (the submission records before the task exists and the task has
\* one record in progress at most); status, result and listing requests
\* change no file
C20_JobsIsolated ==
    [][/\ \A j \in Jobs :
            /\ Records(j) => \A k \in Jobs \ {j} : files'[k] = files[k]
            /\ files'[j] # files[j] => Records(j)
            /\ upload_video(j, <<>>) => pc[j] = "unused" /\ pending[j] = <<>>
            /\ pending'[j] # <<>> /\ pending[j] # <<>> => pending'[j] = pending[j]
       /\ Reads => files' = files /\ hist' = hist]_vars

\* both jobs in the middle of a record while a listing is in progress
C20_Witness ==
    /\ \A j \in Jobs :
          /\ pc[j] = "save_write"
          /\ files[j].data # <<>>
          /\ load_job_status(files[j]) = <<>>
    /\ lst.active
====
